---------------------------- MODULE Spec2Model ----------------------------
(***************************************************************************)
(* A model of the UED centering application (src/src/ued): the Model's     *)
(* numeric pipeline (mask_eval, center_eval, bkg_estimation_2d,            *)
(* set_pol_imgs) at pixel level, and the Controller / View handlers that   *)
(* drive it (start, update_mask, update_brightness, center, dot_moved,     *)
(* plot_polar) as atomic actions: the application is single-threaded and   *)
(* every handler runs to its end or to the exception that leaves it.       *)
(*                                                                         *)
(* Numbers.  Pixel intensities are integers; a real-valued result (a       *)
(* quantile, a centroid, a background value) is kept exact as a scaled     *)
(* integer where it is compared, and rounded down where it is stored.      *)
(* not-a-number and +infinity are the two distinguished values NaN and Inf.*)
(*                                                                         *)
(* Arrays.  A 2-D numpy array is a record [h, w, px] with px[r][c] the      *)
(* element at row r and column c, indices 0-based as in numpy; a 1-D array *)
(* is a record [n, v] with v a function on 0 .. n - 1.                     *)
(* Inside a handler, names bound to arrays are references into a heap of   *)
(* buffers, so that a view (img[::step, ::step]) aliases its base and a    *)
(* .copy() does not.                                                       *)
(***************************************************************************)
EXTENDS Integers, Sequences, FiniteSets, TLC

\* Python's None, and "no exception" as the outcome of a call
None == [none |-> TRUE]
NoExc == "none"

\* np.nan (model.py:138) and the float +inf that fun yields at zero distance
\* with a negative exponent (model.py:14)
NaN == -1
Inf == 1000000

IsNaN(v) == v = NaN
IsInf(v) == v = Inf

Min2(a, b) == IF a <= b THEN a ELSE b
Max2(a, b) == IF a >= b THEN a ELSE b

RECURSIVE Pow(_, _)
Pow(x, n) == IF n = 0 THEN 1 ELSE x * Pow(x, n - 1)

----------------------------------------------------------------------------
(* numpy arrays                                                            *)

Grid(h, w) == (0 .. h - 1) \X (0 .. w - 1)

\* An array's elements are computed once, when the array is made (a
\* function written [x \in S |-> e] is otherwise evaluated at each use).
Eager(f) == f @@ << >>

Array(a) ==
    [h |-> a.h, w |-> a.w,
     px |-> Eager([r \in 0 .. a.h - 1 |-> Eager(a.px[r])])]

Vector(a) == [n |-> a.n, v |-> Eager(a.v)]

Shape(a) == <<a.h, a.w>>

\* a[p] for a position p = <<row, column>>
Px(a, p) == a.px[p[1]][p[2]]

\* np.sum(a): the sum of the first c elements of row r, and of the first
\* r rows
RECURSIVE SumRow(_, _, _)
SumRow(a, r, c) == IF c = 0 THEN 0 ELSE a.px[r][c - 1] + SumRow(a, r, c - 1)

RECURSIVE SumRows(_, _)
SumRows(a, r) == IF r = 0 THEN 0 ELSE SumRow(a, r - 1, a.w) + SumRows(a, r - 1)

SumOver(a) == SumRows(a, a.h)

\* a[::step, ::step]: rows 0, step, 2 step, ... and the same for columns
SubLen(n, step) == (n + step - 1) \div step

Subsample(a, step) ==
    IF step = 1 THEN a
    ELSE Array([h |-> SubLen(a.h, step), w |-> SubLen(a.w, step),
                px |-> [r \in 0 .. SubLen(a.h, step) - 1 |->
                           [c \in 0 .. SubLen(a.w, step) - 1 |->
                               a.px[r * step][c * step]]]])

\* np.ones_like(img, dtype=bool)
OnesLike(a) ==
    Array([h |-> a.h, w |-> a.w,
           px |-> [r \in 0 .. a.h - 1 |-> [c \in 0 .. a.w - 1 |-> TRUE]]])

\* ~mask
Not(m) ==
    Array([h |-> m.h, w |-> m.w,
           px |-> [r \in 0 .. m.h - 1 |-> [c \in 0 .. m.w - 1 |-> ~m.px[r][c]]]])

----------------------------------------------------------------------------
(* numpy / scipy.ndimage operations used by the Model                      *)

\* the values of an array, and the finite (not NaN) ones
ValuesOf(a) == {Px(a, p) : p \in Grid(a.h, a.w)}

FiniteVals(a) == ValuesOf(a) \ {NaN}

\* how many times each finite value occurs: hist counts the rows before r
\* and the first c elements of row r (an array without a finite value has
\* nothing to count)
RECURSIVE HistogramRow(_, _, _, _)
HistogramRow(a, r, c, hist) ==
    IF c = a.w \/ DOMAIN hist = {} THEN hist
    ELSE HistogramRow(a, r, c + 1,
                      IF IsNaN(a.px[r][c]) THEN hist
                      ELSE [hist EXCEPT ![a.px[r][c]] = @ + 1])

RECURSIVE HistogramRows(_, _, _)
HistogramRows(a, r, hist) ==
    IF r = a.h \/ DOMAIN hist = {} THEN hist
    ELSE HistogramRows(a, r + 1, HistogramRow(a, r, 0, hist))

Histogram(a) == HistogramRows(a, 0, Eager([v \in FiniteVals(a) |-> 0]))

RECURSIVE Total(_, _)
Total(hist, vals) ==
    IF vals = {} THEN 0
    ELSE LET v == CHOOSE v \in vals : TRUE
         IN  hist[v] + Total(hist, vals \ {v})

\* for each finite value v, the number of elements <= v
Cumulative(hist) ==
    Eager([v \in DOMAIN hist |-> Total(hist, {u \in DOMAIN hist : u <= v})])

\* the k-th smallest (0-based) finite value, repetitions counted
KthSmallest(cnt, k) ==
    CHOOSE v \in DOMAIN cnt :
        /\ cnt[v] >= k + 1
        /\ \A u \in DOMAIN cnt : cnt[u] >= k + 1 => v <= u

\* numpy's default linear interpolation between the two order statistics
\* around position q (n - 1) / 100 of n finite values, scaled by 100
Interpolate(cnt, n, q) ==
    LET k == q * (n - 1)
        lo == k \div 100
        hi == Min2(lo + 1, n - 1)
    IN  [nan |-> FALSE,
         t100 |-> 100 * KthSmallest(cnt, lo)
                  + (k % 100) * (KthSmallest(cnt, hi) - KthSmallest(cnt, lo))]

\* np.nanquantile(a, q / 100) for the array whose finite values hist
\* counts, kept exact, scaled by 100; NaN when there is no finite value
nanquantile(hist, q) ==
    IF DOMAIN hist = {} THEN [nan |-> TRUE, t100 |-> 0]
    ELSE Interpolate(Cumulative(hist), Total(hist, DOMAIN hist), q)

\* img > t and img < t, elementwise; a comparison with NaN is False
Greater(a, t) ==
    Array([h |-> a.h, w |-> a.w,
           px |-> [r \in 0 .. a.h - 1 |-> [c \in 0 .. a.w - 1 |->
                      /\ ~IsNaN(a.px[r][c])
                      /\ ~t.nan
                      /\ 100 * a.px[r][c] > t.t100]]])

Less(a, t) ==
    Array([h |-> a.h, w |-> a.w,
           px |-> [r \in 0 .. a.h - 1 |-> [c \in 0 .. a.w - 1 |->
                      /\ ~IsNaN(a.px[r][c])
                      /\ ~t.nan
                      /\ 100 * a.px[r][c] < t.t100]]])

\* m1 * m2 on boolean arrays of one shape
And(m1, m2) ==
    Array([h |-> m1.h, w |-> m1.w,
           px |-> [r \in 0 .. m1.h - 1 |-> [c \in 0 .. m1.w - 1 |->
                      m1.px[r][c] /\ m2.px[r][c]]]])

\* m at row r, column c, positions outside the array counting as False
\* (border_value = 0)
Inside(m, r, c) == r >= 0 /\ r < m.h /\ c >= 0 /\ c < m.w /\ m.px[r][c]

\* one pass of binary_dilation / binary_erosion with scipy's default
\* structuring element (generate_binary_structure(2, 1)): a pixel and its
\* four edge neighbours
Dilate(m) ==
    Array([h |-> m.h, w |-> m.w,
           px |-> [r \in 0 .. m.h - 1 |-> [c \in 0 .. m.w - 1 |->
                      \/ m.px[r][c]
                      \/ Inside(m, r - 1, c) \/ Inside(m, r + 1, c)
                      \/ Inside(m, r, c - 1) \/ Inside(m, r, c + 1)]]])

Erode(m) ==
    Array([h |-> m.h, w |-> m.w,
           px |-> [r \in 0 .. m.h - 1 |-> [c \in 0 .. m.w - 1 |->
                      /\ m.px[r][c]
                      /\ Inside(m, r - 1, c) /\ Inside(m, r + 1, c)
                      /\ Inside(m, r, c - 1) /\ Inside(m, r, c + 1)]]])

RECURSIVE binary_erosion(_, _)
binary_erosion(m, iterations) ==
    IF iterations = 0 THEN m ELSE binary_erosion(Erode(m), iterations - 1)

\* binary_closing(mask): a dilation followed by an erosion
binary_closing(m) == Erode(Dilate(m))

AnyTrue(m) == \E p \in Grid(m.h, m.w) : Px(m, p)

----------------------------------------------------------------------------
(* references: the names of a handler are bound to (views of) buffers      *)

\* a reference to every step-th row and column of buffer buf
Ref(buf) == [buf |-> buf, step |-> 1]

\* r[::step, ::step]: basic slicing returns a view on the same buffer
View(r, step) == [buf |-> r.buf, step |-> r.step * step]

\* the array a reference denotes
Deref(heap, r) == Subsample(heap[r.buf], r.step)

\* r.copy() with the copy left out: the name stays bound to r (the defect
\* that C6 excludes)
np_alias(heap, r, fresh) == [heap |-> heap, ref |-> r]

\* r.copy(): a new buffer (fresh) holding the values r denotes
np_copy(heap, r, fresh) ==
    [heap |-> (fresh :> Deref(heap, r)) @@ heap, ref |-> Ref(fresh)]

\* r[idx] = val with idx a boolean array of r's shape (numpy raises
\* IndexError on any other shape), or None, which numpy reads as
\* np.newaxis: every element is assigned.  The write goes to r's buffer.
IndexOK(heap, r, idx) == idx = None \/ Shape(idx) = Shape(Deref(heap, r))

SetWhere(heap, r, idx, val) ==
    LET base == heap[r.buf]
        hit(i, j) ==
            /\ i % r.step = 0
            /\ j % r.step = 0
            /\ \/ idx = None
               \/ idx.px[i \div r.step][j \div r.step]
    IN  [heap EXCEPT ![r.buf] =
            Array([h |-> base.h, w |-> base.w,
                   px |-> [i \in 0 .. base.h - 1 |-> [j \in 0 .. base.w - 1 |->
                              IF hit(i, j) THEN val ELSE base.px[i][j]]]])]

----------------------------------------------------------------------------
(* model.py: fun, and the Model's methods                                  *)

\* the downsampling threshold and the erosion depth of center_eval
DownsampleSide == 512
ErosionIterations == 5

\* fun(x, a, b, xc, yc) = a * ((x[0] - xc)^2 + (x[1] - yc)^2)^b for an
\* integer exponent b <= 0, as an exact fraction: x = <<row, col>> is one
\* point of np.mgrid, so xc is subtracted from the row index and yc from
\* the column index.  Zero distance with b < 0 is 0.0 ** b = inf in numpy,
\* and 0 * inf = nan.
SquaredDistance(x, xc, yc) == (x[1] - xc) * (x[1] - xc) + (x[2] - yc) * (x[2] - yc)

fun(x, a, b, xc, yc) ==
    IF b = 0 THEN [kind |-> "fin", num |-> a, den |-> 1]
    ELSE IF SquaredDistance(x, xc, yc) = 0
    THEN [kind |-> IF a = 0 THEN "nan" ELSE "inf", num |-> 0, den |-> 1]
    ELSE [kind |-> "fin", num |-> a, den |-> Pow(SquaredDistance(x, xc, yc), 0 - b)]

\* a float stored in an array: rounded down to an integer
Stored(f, gain) ==
    IF f.kind = "nan" THEN NaN
    ELSE IF f.kind = "inf" THEN Inf
    ELSE (f.num * gain) \div f.den

\* Model.bkg_estimation_2d(popt, step): the new value of self.img_bkg, on
\* the grid of the stored image self.img
bkg_estimation_2d(self_img, popt, step) ==
    Array([h |-> self_img.h, w |-> self_img.w,
           px |-> [r \in 0 .. self_img.h - 1 |-> [c \in 0 .. self_img.w - 1 |->
                      Stored(fun(<<r, c>>, popt.a, popt.b, popt.xc, popt.yc),
                             Pow(step, 0 - 2 * popt.b))]]])

\* Model.mask_eval(img, quantile_min, quantile_max), quantiles in percent,
\* from its last statements to its first: lines 100-102 on
\* mask_min = (img > np.nanquantile(img, quantile_min))
mask_eval_closed(img, mask_min, hi) ==
    [mask |-> binary_closing(And(mask_min, Less(img, hi))),
     mask_min |-> Not(mask_min)]

\* lines 99-100 on the counted finite values of img, which both calls of
\* np.nanquantile order
mask_eval_quantiles(img, hist, quantile_min, quantile_max) ==
    mask_eval_closed(img, Greater(img, nanquantile(hist, quantile_min)),
                     nanquantile(hist, quantile_max))

mask_eval(img, quantile_min, quantile_max) ==
    mask_eval_quantiles(img, Histogram(img), quantile_min, quantile_max)

\* scipy.ndimage.center_of_mass(a, labels, index): the intensity-weighted
\* centroid (row, column) of the pixels whose label equals index, a boolean
\* label counting as 1 (True) or 0 (False).  NaN when a selected pixel is
\* NaN or the selected intensities sum to 0 (0 / 0).
LabelOf(b) == IF b THEN 1 ELSE 0

\* a where labels = index, 0 elsewhere, times the row (axis 1) or column
\* (axis 2) index, or times 1 (axis 0)
Weighted(a, labels, index, axis) ==
    Array([h |-> a.h, w |-> a.w,
           px |-> [r \in 0 .. a.h - 1 |-> [c \in 0 .. a.w - 1 |->
                      IF LabelOf(labels.px[r][c]) = index
                      THEN a.px[r][c] * <<1, r, c>>[axis + 1]
                      ELSE 0]]])

center_of_mass(a, labels, index) ==
    LET normalizer == SumOver(Weighted(a, labels, index, 0))
        bad == \E p \in Grid(a.h, a.w) :
                   LabelOf(Px(labels, p)) = index /\ IsNaN(Px(a, p))
    IN  IF bad \/ normalizer = 0 THEN [nan |-> TRUE, y |-> 0, x |-> 0]
        ELSE [nan |-> FALSE,
              y |-> SumOver(Weighted(a, labels, index, 1)) \div normalizer,
              x |-> SumOver(Weighted(a, labels, index, 2)) \div normalizer]

\* a[m] for a boolean array m of a's shape: the selected values
Selected(a, m) == {Px(a, p) : p \in {q \in Grid(a.h, a.w) : Px(m, q)}}

\* np.max / np.min of a non-empty selection: NaN if it holds a NaN
MaxOf(vals) ==
    IF NaN \in vals THEN NaN ELSE CHOOSE v \in vals : \A u \in vals : u <= v

MinOf(vals) ==
    IF NaN \in vals THEN NaN ELSE CHOOSE v \in vals : \A u \in vals : v <= u

\* scipy.optimize.curve_fit(f, coords, ydata, p0, jac, bounds).  The
\* trust-region solver is not modelled: it raises ValueError on data or a
\* start that is not finite or a start outside the bounds, may fail to
\* converge (RuntimeError), and otherwise returns parameters inside the
\* bounds.  choice picks the outcome among: the start itself, the corner
\* of the bounds with every finite lower bound and b = 0, the corner with
\* the finite upper bounds.
FitChoices == {"p0", "lower", "upper", "diverge"}

InBounds(p, ub) ==
    /\ p.a >= 0
    /\ p.b <= 0
    /\ p.xc >= 0 /\ p.xc <= ub.xc
    /\ p.yc >= 0 /\ p.yc <= ub.yc

curve_fit(ydata, p0, p0_nan, ub, choice) ==
    IF NaN \in ydata \/ Inf \in ydata \/ p0_nan \/ ~InBounds(p0, ub)
    THEN [exc |-> "ValueError", popt |-> None]
    ELSE IF choice = "diverge" THEN [exc |-> "RuntimeError", popt |-> None]
    ELSE IF choice = "lower"
         THEN [exc |-> NoExc, popt |-> [a |-> p0.a, b |-> 0, xc |-> 0, yc |-> 0]]
    ELSE IF choice = "upper"
         THEN [exc |-> NoExc,
               popt |-> [a |-> p0.a, b |-> p0.b, xc |-> ub.xc, yc |-> ub.yc]]
    ELSE [exc |-> NoExc, popt |-> p0]

\* step = max(1, min(self.img.shape) // 512)
DownsampleStep(self_img) ==
    Max2(1, Min2(self_img.h, self_img.w) \div DownsampleSide)

\* yc_0, xc_0 = center_of_mass(...); guess0 = [np.max(img[mask]), -1, xc_0, yc_0]
Guess0(ydata, com) == [a |-> MaxOf(ydata), b |-> -1, xc |-> com.x, yc |-> com.y]

\* bounds = ([0, -inf, 0, 0], [inf, 0, img.shape[1], img.shape[0]]) on the
\* subsampled image: the finite upper bounds
UpperBounds(shape) == [xc |-> shape[2], yc |-> shape[1]]

\* popt = (popt[0], popt[1], popt[2] * step, popt[3] * step)
FullSpace(popt, step) ==
    [a |-> popt.a, b |-> popt.b, xc |-> popt.xc * step, yc |-> popt.yc * step]

\* center = (popt[3], popt[2])
CenterOf(popt) == <<popt.yc, popt.xc>>

\* Model.center_eval(img, mask) on a Model whose img is self_img.  img is
\* a reference, mask a reference or None; heap holds the buffers they point
\* into.  The result: the exception that ended the call and the expression
\* that raised it (NoExc when it returned), the heap after the call, the
\* returned center and masked_img, and the arguments popt and step of its
\* call of bkg_estimation_2d.  The call is written in the order of its
\* statements, each part handing what it computed to the next.
Raised(e, at, heap, step) ==
    [exc |-> e, at |-> at, heap |-> heap, center |-> <<>>,
     masked_img |-> None, popt |-> None, step |-> step]

\* lines 150-157, given what curve_fit did
center_eval_return(heap, masked_img, step, fit) ==
    IF fit.exc # NoExc THEN Raised(fit.exc, "curve_fit", heap, step)
    ELSE [exc |-> NoExc, at |-> "", heap |-> heap,
          center |-> CenterOf(FullSpace(fit.popt, step)),
          masked_img |-> Deref(heap, masked_img),
          popt |-> FullSpace(fit.popt, step), step |-> step]

\* lines 142-149 with np.max(img[mask], initial=0), which does not raise
\* on an empty selection (the defect that C7 excludes)
center_eval_fit_initial(heap, masked_img, step, img, mask, com, choice) ==
    center_eval_return(heap, masked_img, step,
        curve_fit(Selected(img, mask) \cup {0},
                  Guess0(Selected(img, mask) \cup {0}, com),
                  com.nan, UpperBounds(Shape(img)), choice))

\* lines 142-149, on the subsampled image img and the eroded mask
center_eval_fit(heap, masked_img, step, img, mask, com, choice) ==
    IF ~AnyTrue(mask) THEN Raised("ValueError", "np.max(img[mask])", heap, step)
    ELSE center_eval_return(heap, masked_img, step,
             curve_fit(Selected(img, mask), Guess0(Selected(img, mask), com),
                       com.nan, UpperBounds(Shape(img)), choice))

\* line 141
center_eval_guess(heap, masked_img, step, img, mask, choice) ==
    center_eval_fit(heap, masked_img, step, img, mask,
                    center_of_mass(img, mask, 0), choice)

\* line 138, masked_img[~mask] = np.nan, cp being the copy made at line 137
center_eval_blank(cp, img, mask, step, choice) ==
    IF ~IndexOK(cp.heap, cp.ref, Not(mask))
    THEN Raised("IndexError", "masked_img[~mask]", cp.heap, step)
    ELSE center_eval_guess(SetWhere(cp.heap, cp.ref, Not(mask), NaN), cp.ref,
                           step,
                           Deref(SetWhere(cp.heap, cp.ref, Not(mask), NaN), img),
                           mask, choice)

\* lines 132-137
center_eval_slice(heap, img, mask, step, choice) ==
    center_eval_blank(np_copy(heap, View(img, step), "masked_img"),
                      View(img, step),
                      binary_erosion(Deref(heap, View(mask, step)),
                                     ErosionIterations),
                      step, choice)

center_eval(self_img, heap, img, mask, choice) ==
    IF self_img = None
    THEN Raised("AttributeError", "self.img.shape", heap, 0)
    ELSE IF mask = None
    THEN center_eval_slice(("ones" :> OnesLike(Deref(heap, img))) @@ heap,
                           img, Ref("ones"), DownsampleStep(self_img), choice)
    ELSE center_eval_slice(heap, img, mask, DownsampleStep(self_img), choice)

\* line 155 left out: img_bkg is not written (the defect that C5, as
\* amended, excludes)
img_bkg_kept(self_img, img_bkg, ce) == img_bkg

\* line 155: the Model's img_bkg after the call ce of center_eval
img_bkg_after(self_img, img_bkg, ce) ==
    IF ce.exc = NoExc THEN bkg_estimation_2d(self_img, ce.popt, ce.step)
    ELSE img_bkg

----------------------------------------------------------------------------
(* skimage.transform.warp_polar and Model.set_pol_imgs                     *)

\* The radius warp_polar takes when none is given is half the diagonal of
\* the image, and the output has ceil(radius) radius bins:
\* the least n with (2 n)^2 >= h^2 + w^2.
RadiusBins(h, w) ==
    CHOOSE n \in 0 .. h + w :
        /\ 4 * n * n >= h * h + w * w
        /\ \A k \in 0 .. h + w : 4 * k * k >= h * h + w * w => n <= k

\* Radius bin j of the n of the output samples the input at distance
\* j * radius / n from the center; SourceDistance is that distance rounded
\* down, exactly j when the half-diagonal is an integer.
SourceDistance(h, w, n, j) ==
    CHOOSE d \in 0 .. j :
        /\ 4 * d * d * n * n <= j * j * (h * h + w * w)
        /\ \A e \in 0 .. j :
               4 * e * e * n * n <= j * j * (h * h + w * w) => e <= d

\* Of warp_polar's 360 angle bins the model keeps the four along the axes
\* (0, 90, 180 and 270 degrees): row = center[0] + d sin(angle),
\* col = center[1] + d cos(angle).
Directions == <<<<0, 1>>, <<1, 0>>, <<0, -1>>, <<-1, 0>>>>

\* warp_polar without cval: 0, its default, outside the image (the defect
\* that C11 excludes)
Sample_default(image, src, cval) ==
    IF src \in Grid(image.h, image.w) THEN Px(image, src) ELSE 0

\* the value warp_polar samples at src: cval outside the image
Sample(image, src, cval) ==
    IF src \in Grid(image.h, image.w) THEN Px(image, src) ELSE cval

\* warp_polar(image, center=center, cval=cval): axis 0 the angle, axis 1
\* the radius
warp_polar(image, center, cval) ==
    LET n == RadiusBins(image.h, image.w)
        dist == Eager([j \in 0 .. n - 1 |->
                          SourceDistance(image.h, image.w, n, j)])
    IN  Array([h |-> Len(Directions), w |-> n,
               px |-> [i \in 0 .. Len(Directions) - 1 |-> [j \in 0 .. n - 1 |->
                   Sample(image,
                          <<center[1] + dist[j] * Directions[i + 1][1],
                            center[2] + dist[j] * Directions[i + 1][2]>>,
                          cval)]]])

\* np.nansum(a, axis=0): one sum per column, NaN counting as 0; a float
\* sum with +inf in it is +inf
NanAdd(x, y) ==
    IF IsNaN(y) THEN x
    ELSE IF IsInf(x) \/ IsInf(y) THEN Inf
    ELSE x + y

RECURSIVE ColumnSum(_, _, _)
ColumnSum(a, j, rows) ==
    IF rows = 0 THEN 0
    ELSE NanAdd(ColumnSum(a, j, rows - 1), a.px[rows - 1][j])

nansum_axis0(a) ==
    Vector([n |-> a.w, v |-> [j \in 0 .. a.w - 1 |-> ColumnSum(a, j, a.h)]])

\* p - b without the clip (the defect that C3 excludes)
PlainDiff(p, b) == IF IsInf(b) THEN 0 - Inf ELSE p - b

\* np.clip(p - b, 0, None) for one entry: inf - inf is NaN and stays NaN,
\* finite - inf is -inf and clips to 0
ClipDiff(p, b) ==
    IF IsInf(p) /\ IsInf(b) THEN NaN
    ELSE IF IsInf(b) THEN 0
    ELSE IF IsInf(p) THEN Inf
    ELSE Max2(p - b, 0)

\* numpy broadcasting of two 1-D arrays: equal lengths, or one of length 1
Broadcastable(p, b) == p.n = b.n \/ p.n = 1 \/ b.n = 1

At(p, j) == IF p.n = 1 THEN p.v[0] ELSE p.v[j]

clip_diff(p, b) ==
    Vector([n |-> Max2(p.n, b.n),
            v |-> [j \in 0 .. Max2(p.n, b.n) - 1 |->
                      ClipDiff(At(p, j), At(b, j))]])

\* Model.set_pol_imgs(img, img_masked, img_bkg_masked, center) on Model m:
\* the exception that ended it (NoExc when it returned) and the Model after.
\* line 174
set_prfl_flattened(m) ==
    IF ~Broadcastable(m.prfl, m.prfl_bkg)
    THEN [exc |-> "ValueError", at |-> "self.prfl-self.prfl_bkg", model |-> m]
    ELSE [exc |-> NoExc, at |-> "",
          model |-> [m EXCEPT !.prfl_flattened = clip_diff(m.prfl, m.prfl_bkg)]]

\* lines 172-173
set_prfl(m) ==
    set_prfl_flattened([m EXCEPT !.prfl = nansum_axis0(m.img_pol_masked),
                                 !.prfl_bkg = nansum_axis0(m.img_pol_bkg)])

set_pol_imgs(m, image, img_masked, img_bkg_masked, center) ==
    set_prfl([m EXCEPT !.img_pol = warp_polar(image, center, 0),
                       !.img_pol_masked = warp_polar(img_masked, center, NaN),
                       !.img_pol_bkg = warp_polar(img_bkg_masked, center, NaN)])

----------------------------------------------------------------------------
(* the files the user can select, and what the readers decode from them   *)

Files == {"a.dm3", "b.tif", "c.png"}

Suffix(f) == IF f = "a.dm3" THEN ".dm3" ELSE IF f = "b.tif" THEN ".tif" ELSE ".png"

\* an h x w intensity ramp
Ramp(h, w) ==
    Array([h |-> h, w |-> w,
           px |-> [r \in 0 .. h - 1 |-> [c \in 0 .. w - 1 |-> r + c]]])

\* DM3(f).imagedata.astype(float) / imread(f).astype(float): a.dm3 is an
\* 18 x 24 intensity ramp, b.tif an image of a single pixel
Decoded(f) ==
    IF f = "a.dm3" THEN Ramp(18, 24)
    ELSE Array([h |-> 1, w |-> 1, px |-> [r \in {0} |-> [c \in {0} |-> 5]]])

\* DM3(f).pxsize[0]
PxSize(f) == 2

\* the positions of the quantile range slider (percent) and of the
\* brightness slider (percent of its range 0 .. 1) the user moves to
Quantiles == {<<45, 55>>}
Brightness == {0, 10}

\* the outcomes of the fit in a session: it converges where it started or
\* fails to converge (the outcomes on the bounds are those of direct calls)
SessionFits == {"p0", "diverge"}

\* the plot positions (x, y) the user taps
TapPoints == {[x |-> 2, y |-> 3]}

\* one session: the files selected, the clicks on Centering, the timeouts
\* that fire
MaxLoads == 2
MaxFits == 2
MaxPlots == 1

\* Direct calls of Model.center_eval, as a script or a test makes them: the
\* shape of the image the Model stores, and the image and the mask passed
StoredShapes == {<<256, 256>>, <<1024, 1024>>, <<2048, 2048>>}
PassedShapes == {<<24, 24>>, <<25, 25>>, <<22, 30>>}
MaskShapes == {<<24, 24>>, <<23, 23>>, <<22, 30>>}

ShapeOnly(s) == [h |-> s[1], w |-> s[2]]

Calls ==
    {[self_img |-> self_img, heap |-> [img |-> img, mask |-> mask],
      ret |-> None] :
        self_img \in {ShapeOnly(s) : s \in StoredShapes \cup PassedShapes},
        img \in {Ramp(s[1], s[2]) : s \in PassedShapes},
        mask \in {None} \cup {OnesLike(ShapeOnly(s)) : s \in MaskShapes}}

----------------------------------------------------------------------------
(* state                                                                   *)

VARIABLES
    model,        \* the Model object: its attributes
    view,         \* the View's widgets the handlers read or write
    callback_id,  \* Controller.callback_id
    timeouts,     \* the document's pending timeout callbacks
    last,         \* the handler that ran last, and the exception that
                  \* ended it with the expression that raised it
    call,         \* a direct call of center_eval: the stored image's
                  \* shape, the arguments, the outcome; None in the GUI
    used          \* the files selected, the clicks on Centering and the
                  \* timeouts fired so far

vars == <<model, view, callback_id, timeouts, last, call, used>>

gui == <<model, view, callback_id, timeouts, last, used>>

\* Model.__init__ (model.py:29-48)
ModelInit ==
    [img |-> None, img_bkg |-> None,
     img_pol |-> None, img_pol_masked |-> None, img_pol_bkg |-> None,
     prfl |-> None, prfl_bkg |-> None, prfl_flattened |-> None,
     mask |-> None, mask_min |-> None, vmin |-> None, vmax |-> None,
     img_src |-> [dw |-> 10, dh |-> 10],
     dot_src |-> [x |-> 0, y |-> 0]]

\* View.__init__: the initial values of the widgets a handler reads, and of
\* the alert and the progress indicator (view.py:30, 63, 173-179, 223-228);
\* what the plots draw is not kept
ViewInit ==
    [alert |-> FALSE, progress |-> FALSE, brightness_slider |-> 10,
     mask_chkbox |-> FALSE]

\* obj.name on an object without that attribute raises AttributeError
HasAttr(obj, name) == name \in DOMAIN obj

\* the application as Controller.__init__ leaves it, or a Model about to
\* be called directly
Init ==
    /\ model = ModelInit
    /\ view = ViewInit
    /\ callback_id = None
    /\ timeouts = {}
    /\ last = [handler |-> "main", exc |-> NoExc, at |-> ""]
    /\ call \in {None} \cup Calls
    /\ used = [loads |-> 0, fits |-> 0, plots |-> 0]

----------------------------------------------------------------------------
(* Model and Controller methods on the state.  Each returns the exception *)
(* that ended it (NoExc when it returned), the expression that raised it,  *)
(* and the objects as it left them.                                        *)

\* Model.load_img(f), with Controller.error (controller.py:53-56)
load_img(m, v, f) ==
    IF Suffix(f) \in {".dm3", ".dm4"}
    THEN [exc |-> NoExc, at |-> "",
          model |-> [("pixel_size_init" :> PxSize(f)) @@ m
                        EXCEPT !.img = Decoded(f)],
          view |-> [v EXCEPT !.alert = FALSE]]
    ELSE IF Suffix(f) = ".tif"
    THEN [exc |-> NoExc, at |-> "",
          model |-> [m EXCEPT !.img = Decoded(f)],
          view |-> [v EXCEPT !.alert = FALSE]]
    ELSE [exc |-> "ValueError", at |-> "load_img", model |-> m,
          view |-> [v EXCEPT !.alert = TRUE]]

\* Model.compute_brightness(brightness), the slider value in percent:
\* vmax = (0.01 / brightness) * np.max(img) = np.max(img) / percent
compute_brightness(m, brightness) ==
    IF brightness = 0
    THEN [exc |-> "ZeroDivisionError", at |-> "0.01 / brightness", model |-> m]
    ELSE IF m.img = None
    THEN [exc |-> "TypeError", at |-> "np.max(self.img)", model |-> m]
    ELSE [exc |-> NoExc, at |-> "",
          model |-> [m EXCEPT
                       !.vmax = [num |-> MaxOf(ValuesOf(m.img)),
                                 den |-> brightness],
                       !.vmin = [num |-> MinOf(ValuesOf(m.img)), den |-> 1]]]

\* Controller.update_brightness(): the color mapper and the polar plot
\* take vmin and vmax, or the exception of compute_brightness leaves it
with_view(r, v) == [exc |-> r.exc, at |-> r.at, model |-> r.model, view |-> v]

update_brightness(m, v) ==
    with_view(compute_brightness(m, v.brightness_slider), v)

\* Controller.toggle_mask(): the image source shows the image or the image
\* with the masked pixels blanked (np.where makes a new array; only the
\* displayed size is kept here)
toggle_mask(m, v) ==
    IF m.img = None
    THEN [exc |-> "AttributeError", at |-> "img.shape", model |-> m, view |-> v]
    ELSE IF ~v.mask_chkbox /\ m.mask # None /\ Shape(m.mask) # Shape(m.img)
    THEN [exc |-> "ValueError", at |-> "np.where", model |-> m, view |-> v]
    ELSE [exc |-> NoExc, at |-> "",
          model |-> [m EXCEPT !.img_src = [dw |-> m.img.w, dh |-> m.img.h]],
          view |-> v]

\* model.mask, model.mask_min = ... (controller.py:214)
set_masks(m, me) == [m EXCEPT !.mask = me.mask, !.mask_min = me.mask_min]

\* Controller.update_mask(quantile_min, quantile_max)
update_mask(m, v, quantile_min, quantile_max) ==
    IF m.img = None
    THEN [exc |-> "TypeError", at |-> "mask_eval", model |-> m, view |-> v]
    ELSE toggle_mask(set_masks(m, mask_eval(m.img, quantile_min, quantile_max)),
                     v)

\* Controller.start(quantile_min=0.10, quantile_max=0.95) on file f, from
\* its last statements to its first
start_masked(um) ==
    IF um.exc # NoExc THEN um ELSE [um EXCEPT !.view.progress = FALSE]

start_bright(ub) ==
    IF ub.exc # NoExc THEN ub
    ELSE start_masked(update_mask(ub.model, ub.view, 10, 95))

start_loaded(ld) ==
    IF ld.exc = "ValueError"
    THEN [exc |-> NoExc, at |-> "", model |-> ld.model,
          view |-> [ld.view EXCEPT !.progress = FALSE]]
    ELSE start_bright(update_brightness(ld.model, ld.view))

start(m, v, f) == start_loaded(load_img(m, [v EXCEPT !.progress = TRUE], f))

\* Controller.dot_moved: cancel the pending plot_polar and schedule a new
\* one.  The document raises ValueError when asked to remove a callback it
\* no longer holds (one that has fired).
NewTimeout(tmo) ==
    [id |-> CHOOSE n \in 1 .. Cardinality(tmo) + 1 :
                /\ [id |-> n] \notin tmo
                /\ \A k \in 1 .. n - 1 : [id |-> k] \in tmo]

dot_moved(cbid, tmo) ==
    IF cbid # None /\ cbid \notin tmo
    THEN [exc |-> "ValueError", at |-> "remove_timeout_callback",
          callback_id |-> cbid, timeouts |-> tmo]
    ELSE [exc |-> NoExc, at |-> "",
          callback_id |-> NewTimeout(tmo \ {cbid}),
          timeouts |-> (tmo \ {cbid}) \cup {NewTimeout(tmo \ {cbid})}]

\* the Model after the call ce of center_eval on its img and mask: the two
\* buffers as the call left them, and img_bkg
center_eval_self(m, ce) ==
    [m EXCEPT !.img = ce.heap.img, !.mask = ce.heap.mask,
              !.img_bkg = img_bkg_after(m.img, m.img_bkg, ce)]

\* Controller.center(), the Centering button's handler, from its last
\* statements to its first: lines 204-206, given what dot_moved did on the
\* change of dot_src.data
center_shown(m, v, dm) ==
    [exc |-> dm.exc, at |-> dm.at, model |-> m,
     view |-> IF dm.exc # NoExc THEN v ELSE [v EXCEPT !.progress = FALSE],
     callback_id |-> dm.callback_id, timeouts |-> dm.timeouts]

\* lines 203-204, given what center_eval did
center_evaluated(m, v, cbid, tmo, ce) ==
    IF ce.exc # NoExc
    THEN [exc |-> ce.exc, at |-> ce.at, model |-> center_eval_self(m, ce),
          view |-> v, callback_id |-> cbid, timeouts |-> tmo]
    ELSE center_shown([center_eval_self(m, ce) EXCEPT
                          !.dot_src = [x |-> ce.center[1], y |-> ce.center[2]]],
                      v, dot_moved(cbid, tmo))

center(m, v, cbid, tmo, choice) ==
    center_evaluated(m, [v EXCEPT !.progress = TRUE], cbid, tmo,
                     center_eval(m.img, [img |-> m.img, mask |-> m.mask],
                                 Ref("img"),
                                 IF m.mask = None THEN None ELSE Ref("mask"),
                                 choice))

\* Controller.get_profiles(): the attributes it reads
get_profiles(m) ==
    IF HasAttr(m, "prof") /\ HasAttr(m, "prof_bkg") /\ HasAttr(m, "prof_flattened")
    THEN [exc |-> NoExc, at |-> ""]
    ELSE [exc |-> "AttributeError", at |-> "self.model.prof"]

\* Controller.export_profiles(), the Export button's handler: the
\* attributes it reads (what the download pane then holds is not kept)
export_profiles(m, v) ==
    IF HasAttr(m, "prof") /\ HasAttr(m, "prof_bkg") /\ HasAttr(m, "prof_flattened")
    THEN [exc |-> NoExc, at |-> "", model |-> m, view |-> v]
    ELSE [exc |-> "AttributeError", at |-> "model.prof.shape", model |-> m,
          view |-> v]

\* View.plot_polar(), the timeout callback dot_moved schedules, from its
\* last statements to its first.  heap holds the Model's img and img_bkg
\* and the two copies; the Model keeps its two buffers as the call left them
plot_polar_raised(e, at, m, v, cbid) ==
    [exc |-> e, at |-> at, model |-> m, view |-> v, callback_id |-> cbid]

with_buffers(m, heap) == [m EXCEPT !.img = heap.img, !.img_bkg = heap.img_bkg]

\* lines 323-331, given what set_pol_imgs did
plot_polar_render(v, cbid, sp) ==
    IF sp.exc # NoExc THEN plot_polar_raised(sp.exc, sp.at, sp.model, v, cbid)
    ELSE IF get_profiles(sp.model).exc # NoExc
    THEN plot_polar_raised(get_profiles(sp.model).exc,
                           get_profiles(sp.model).at, sp.model, v, cbid)
    ELSE [exc |-> NoExc, at |-> "", model |-> sp.model,
          view |-> [v EXCEPT !.progress = FALSE], callback_id |-> None]

\* line 321
plot_polar_warp(m, v, cbid, img_masked, img_bkg_masked, heap) ==
    plot_polar_render(v, cbid,
        set_pol_imgs(with_buffers(m, heap), Deref(heap, Ref("img")),
                     Deref(heap, img_masked), Deref(heap, img_bkg_masked),
                     <<m.dot_src.y, m.dot_src.x>>))

\* line 318
plot_polar_blank_bkg(m, v, cbid, img_masked, img_bkg_masked, heap) ==
    IF ~IndexOK(heap, img_bkg_masked, m.mask_min)
    THEN plot_polar_raised("IndexError", "img_bkg_masked[mask_min_only]",
                           with_buffers(m, heap), v, cbid)
    ELSE plot_polar_warp(m, v, cbid, img_masked, img_bkg_masked,
                         SetWhere(heap, img_bkg_masked, m.mask_min, NaN))

\* line 317, cp being the second copy
plot_polar_blank(m, v, cbid, img_masked, cp) ==
    IF ~IndexOK(cp.heap, img_masked, m.mask_min)
    THEN plot_polar_raised("IndexError", "img_masked[mask_min_only]",
                           with_buffers(m, cp.heap), v, cbid)
    ELSE plot_polar_blank_bkg(m, v, cbid, img_masked, cp.ref,
                              SetWhere(cp.heap, img_masked, m.mask_min, NaN))

\* line 315, cp being the first copy
plot_polar_copy_bkg(m, v, cbid, cp) ==
    plot_polar_blank(m, v, cbid, cp.ref,
                     np_copy(cp.heap, Ref("img_bkg"), "img_bkg_masked"))

\* lines 296-314
plot_polar_copy(m, v, cbid) ==
    IF ~HasAttr(m, "pixel_size_init")
    THEN plot_polar_raised("AttributeError", "self.model.pixel_size_init",
                           m, v, cbid)
    ELSE IF m.img = None
    THEN plot_polar_raised("AttributeError", "img.copy()", m, v, cbid)
    ELSE IF m.img_bkg = None
    THEN plot_polar_raised("AttributeError", "get_img_bkg().copy()", m, v, cbid)
    ELSE plot_polar_copy_bkg(m, v, cbid,
             np_copy([img |-> m.img, img_bkg |-> m.img_bkg], Ref("img"),
                     "img_masked"))

plot_polar(m, v, cbid) == plot_polar_copy(m, [v EXCEPT !.progress = TRUE], cbid)

----------------------------------------------------------------------------
(* the user's actions and the timer: each runs one handler to its end      *)

Ended(handler, r) == [handler |-> handler, exc |-> r.exc, at |-> r.at]

\* a file is selected in the file browser: start
SelectFile(f) ==
    /\ call = None
    /\ used.loads < MaxLoads
    /\ used' = [used EXCEPT !.loads = @ + 1]
    /\ \E r \in {start(model, view, f)} :
           /\ model' = r.model
           /\ view' = r.view
           /\ last' = Ended("start", r)
    /\ UNCHANGED <<callback_id, timeouts, call>>

\* the quantile slider is moved: update_mask
MoveQuantileSlider(q) ==
    /\ call = None
    /\ \E r \in {update_mask(model, view, q[1], q[2])} :
           /\ model' = r.model
           /\ view' = r.view
           /\ last' = Ended("update_mask", r)
    /\ UNCHANGED <<callback_id, timeouts, call, used>>

\* the brightness slider is moved: update_brightness
MoveBrightnessSlider(b) ==
    /\ call = None
    /\ b # view.brightness_slider
    /\ \E r \in {update_brightness(model,
                                   [view EXCEPT !.brightness_slider = b])} :
           /\ model' = r.model
           /\ view' = r.view
           /\ last' = Ended("update_brightness", r)
    /\ UNCHANGED <<callback_id, timeouts, call, used>>

\* the Centering button is clicked: center
ClickCentering(choice) ==
    /\ call = None
    /\ used.fits < MaxFits
    /\ used' = [used EXCEPT !.fits = @ + 1]
    /\ \E r \in {center(model, view, callback_id, timeouts, choice)} :
           /\ model' = r.model
           /\ view' = r.view
           /\ callback_id' = r.callback_id
           /\ timeouts' = r.timeouts
           /\ last' = Ended("center", r)
    /\ UNCHANGED call

\* a tap on the plot, accepted by the script of view.py:105-112, changes
\* dot_src.data: dot_moved
Tap(pt) ==
    /\ call = None
    /\ pt # model.dot_src
    /\ pt.x >= 0 /\ pt.x <= model.img_src.dh
    /\ pt.y >= 0 /\ pt.y <= model.img_src.dw
    /\ \E r \in {dot_moved(callback_id, timeouts)} :
           /\ model' = [model EXCEPT !.dot_src = pt]
           /\ callback_id' = r.callback_id
           /\ timeouts' = r.timeouts
           /\ last' = Ended("dot_moved", r)
    /\ UNCHANGED <<view, call, used>>

\* a pending timeout fires: the document drops it and runs plot_polar
Timeout(id) ==
    /\ call = None
    /\ used.plots < MaxPlots
    /\ used' = [used EXCEPT !.plots = @ + 1]
    /\ \E r \in {plot_polar(model, view, callback_id)} :
           /\ timeouts' = timeouts \ {id}
           /\ model' = r.model
           /\ view' = r.view
           /\ callback_id' = r.callback_id
           /\ last' = Ended("plot_polar", r)
    /\ UNCHANGED call

\* the Export button is clicked, once a plot_polar has stored profiles:
\* export_profiles
ClickExport ==
    /\ call = None
    /\ model.prfl # None
    /\ \E r \in {export_profiles(model, view)} :
           /\ model' = r.model
           /\ view' = r.view
           /\ last' = Ended("export_profiles", r)
    /\ UNCHANGED <<callback_id, timeouts, call, used>>

\* a script calls center_eval(img, mask) on a Model that stores self_img
DirectCall(choice) ==
    /\ call # None
    /\ call.ret = None
    /\ call' = [call EXCEPT !.ret =
                   center_eval(call.self_img, call.heap, Ref("img"),
                               IF call.heap.mask = None THEN None
                               ELSE Ref("mask"),
                               choice)]
    /\ UNCHANGED gui

Next ==
    \/ \E f \in Files : SelectFile(f)
    \/ \E q \in Quantiles : MoveQuantileSlider(q)
    \/ \E b \in Brightness : MoveBrightnessSlider(b)
    \/ \E choice \in SessionFits : ClickCentering(choice)
    \/ \E pt \in TapPoints : Tap(pt)
    \/ \E id \in timeouts : Timeout(id)
    \/ ClickExport
    \/ \E choice \in FitChoices : DirectCall(choice)

Spec == Init /\ [][Next]_vars

----------------------------------------------------------------------------
(* Properties.  What the steps below were, told from the state before and *)
(* after: only ClickCentering counts a fit, only Timeout counts a plot,   *)
(* only DirectCall sets call.ret.                                          *)

CenterRan == call = None /\ used'.fits = used.fits + 1

PlotRan == call = None /\ used'.plots = used.plots + 1

Called == call # None /\ call.ret = None /\ call'.ret # None

\* center() ended in an exception of center_eval (dot_moved, which center()
\* reaches after center_eval returned, raises at remove_timeout_callback)
CenterEvalRaised(l) == l.exc # NoExc /\ l.at # "remove_timeout_callback"

\* the last handler was plot_polar and its call of set_pol_imgs completed:
\* the handler went on to get_profiles
PolarDone == last.handler = "plot_polar" /\ last.at = "self.model.prof"

\* a direct call of center_eval has ended / has returned
Returned == call # None /\ call.ret # None

Succeeded == Returned /\ call.ret.exc = NoExc

\* C1: center_eval subsamples with the stride max(1, min(h, w) // 512) of
\* the image it is passed, h x w, also when that image is not the one the
\* Model stores.
C1_StepFromPassedImage ==
    Returned =>
        call.ret.step =
            Max2(1, Min2(call.heap.img.h, call.heap.img.w) \div DownsampleSide)

\* C2: a center that center_eval returns lies within the image it was
\* passed: the coordinate along the row axis (the first component of the
\* (y, x) pair; the parameter the radial model subtracts from the row
\* index) is in [0, height], the one along the column axis in [0, width].
C2_CenterWithinExtent ==
    Succeeded =>
        /\ call.ret.center[1] \in 0 .. call.heap.img.h
        /\ call.ret.center[2] \in 0 .. call.heap.img.w
        /\ \E row \in 0 .. call.heap.img.h, col \in 0 .. call.heap.img.w :
               SquaredDistance(<<row, col>>,
                               call.ret.popt.xc, call.ret.popt.yc) = 0

\* C3: after set_pol_imgs every entry of the flattened profile is >= 0 and
\* equals max(0, profile - background profile) at its radius bin (in the
\* extended reals: a bin whose background is +inf flattens to 0).
C3_FlattenedIsClippedDifference ==
    PolarDone =>
        \A j \in 0 .. model.prfl_flattened.n - 1 :
            /\ model.prfl_flattened.v[j] >= 0
            /\ ~IsInf(At(model.prfl, j))
            /\ model.prfl_flattened.v[j] =
                   IF IsInf(At(model.prfl_bkg, j)) THEN 0
                   ELSE Max2(0, At(model.prfl, j) - At(model.prfl_bkg, j))

\* a completed set_pol_imgs whose flattened profile has a bin it clipped
\* and a bin it did not
C3_Witness ==
    /\ PolarDone
    /\ \E j \in 0 .. model.prfl_flattened.n - 1 :
           At(model.prfl, j) < At(model.prfl_bkg, j)
    /\ \E j \in 0 .. model.prfl_flattened.n - 1 :
           model.prfl_flattened.v[j] > 0

\* C4: after any completed or failed run of start, update_mask or
\* update_brightness the mask the Model stores has the shape of the image
\* it stores (the mask being what mask_eval returned for that image).
C4_MaskHasImageShape ==
    (last.handler \in {"start", "update_mask", "update_brightness"}
        /\ model.img # None)
    => (model.mask # None /\ Shape(model.mask) = Shape(model.img))

C6_CallerArraysUnchanged ==
    [][/\ Called =>
              /\ call'.ret.heap.img = call.heap.img
              /\ call'.ret.heap.mask = call.heap.mask
       /\ CenterRan => (model'.img = model.img /\ model'.mask = model.mask)
       /\ PlotRan =>
              (model'.img = model.img /\ model'.img_bkg = model.img_bkg)]_vars

\* plot_polar blanked at least one pixel of each copy, after a center_eval
\* that blanked its masked image
C6_Witness ==
    /\ PolarDone
    /\ model.mask_min # None
    /\ AnyTrue(model.mask_min)
    /\ model.img_bkg # None

\* the eroded mask center_eval fits on has no True pixel
ErodedEmpty(img, mask, step) ==
    ~AnyTrue(binary_erosion(
                 Subsample(IF mask = None THEN OnesLike(img) ELSE mask, step),
                 ErosionIterations))

\* C7: when no pixel of the mask is left after the 5 erosions, center_eval
\* raises: it returns no center (the dot stays) and the Model's img_bkg is
\* not replaced.
C7_DegenerateMaskRaises ==
    [][/\ (CenterRan /\ model.img # None
              /\ ErodedEmpty(model.img, model.mask,
                             DownsampleStep(model.img))) =>
              /\ CenterEvalRaised(last')
              /\ model'.dot_src = model.dot_src
              /\ model'.img_bkg = model.img_bkg
       /\ (Called /\ ErodedEmpty(call.heap.img, call.heap.mask,
                                 DownsampleStep(call.self_img))) =>
              /\ call'.ret.exc # NoExc
              /\ call'.ret.center = <<>>
              /\ call'.ret.masked_img = None]_vars

\* center() failed on an empty eroded mask while the Model held the
\* background of an earlier fit
C7_Witness ==
    /\ last.handler = "center"
    /\ last.exc = "ValueError"
    /\ last.at = "np.max(img[mask])"
    /\ model.img_bkg # None

\* C8: center_eval raises before the fit whenever the mask it is passed
\* has not the shape of the image, for every stride.
C8_ShapeMismatchRaises ==
    (Returned /\ call.heap.mask # None
        /\ Shape(call.heap.mask) # Shape(call.heap.img))
    => (call.ret.exc # NoExc /\ call.ret.at # "curve_fit")

\* C9: the returned center is (y, x): its first component is the fitted
\* parameter the radial model subtracts from the row index, its second the
\* one it subtracts from the column index, so that the model's squared
\* distance vanishes at the returned position.
C9_CenterIsRowColumn ==
    Succeeded =>
        SquaredDistance(call.ret.center, call.ret.popt.xc, call.ret.popt.yc) = 0

\* C10: after a completed set_pol_imgs the three profiles have one length,
\* the number of radius bins of the polar images they were summed from.
C10_ProfilesShareLength ==
    PolarDone =>
        /\ model.prfl.n = model.img_pol_masked.w
        /\ model.prfl_bkg.n = model.img_pol_bkg.w
        /\ model.prfl_bkg.n = model.prfl.n
        /\ model.prfl_flattened.n = model.prfl.n

\* the position in an h x w image that bin (i, j) of its polar image
\* samples, for the center plot_polar passes: the dot, as (y, x)
SourceOf(h, w, i, j) ==
    <<model.dot_src.y
          + SourceDistance(h, w, RadiusBins(h, w), j) * Directions[i + 1][1],
      model.dot_src.x
          + SourceDistance(h, w, RadiusBins(h, w), j) * Directions[i + 1][2]>>

\* every bin of pol, the polar image of an h x w image, that samples a
\* position outside the image holds cval
OutsideFilled(pol, h, w, cval) ==
    \A i \in 0 .. pol.h - 1, j \in 0 .. pol.w - 1 :
        SourceOf(h, w, i, j) \notin Grid(h, w) => pol.px[i][j] = cval

ErodedMask(img, mask, step) ==
    binary_erosion(Subsample(IF mask = None THEN OnesLike(img) ELSE mask, step),
                   ErosionIterations)

FittedCentroid(img, mask, step) ==
    center_of_mass(Subsample(img, step), ErodedMask(img, mask, step), 1)

\* the call of a direct call, had the fit returned the initial guess
GuessReturned ==
    center_eval(call.self_img, call.heap, Ref("img"),
                IF call.heap.mask = None THEN None ELSE Ref("mask"), "p0")

\* C12: the initial guess of the center (what center_eval returns, times
\* the step, when the fit stays at its start) is the intensity-weighted
\* centroid of the subsampled image over exactly the pixels that are True
\* in the eroded mask.
C12_GuessIsCentroidOfFittedPixels ==
    (Returned /\ GuessReturned.exc = NoExc) =>
        /\ ~FittedCentroid(call.heap.img, call.heap.mask, call.ret.step).nan
        /\ GuessReturned.popt.yc =
               call.ret.step
               * FittedCentroid(call.heap.img, call.heap.mask, call.ret.step).y
        /\ GuessReturned.popt.xc =
               call.ret.step
               * FittedCentroid(call.heap.img, call.heap.mask, call.ret.step).x

\* the quantiles (percent) of the mask_eval call the last handler made:
\* start passes its defaults, update_mask the slider's position
LastQuantiles ==
    IF last.exc # NoExc THEN {}
    ELSE IF last.handler = "start" /\ model.img # None /\ model.mask # None
    THEN {<<10, 95>>}
    ELSE IF last.handler = "update_mask" THEN Quantiles
    ELSE {}

\* img > low threshold and img < high threshold, for the quantiles q
AboveLow(q) == Greater(model.img, nanquantile(Histogram(model.img), q[1]))

BelowHigh(q) == Less(model.img, nanquantile(Histogram(model.img), q[2]))

\* C13: the closing of mask_eval only fills holes: every pixel strictly
\* between the two thresholds is True in the returned mask, at the image
\* border too, and the second output is exactly the complement of
\* (image > low threshold).
C13_ClosingOnlyFillsHoles ==
    \A q \in LastQuantiles :
        /\ \A p \in Grid(model.img.h, model.img.w) :
               (Px(AboveLow(q), p) /\ Px(BelowHigh(q), p)) => Px(model.mask, p)
        /\ model.mask_min = Not(AboveLow(q))

\* C14: once set_pol_imgs has completed, get_profiles and export_profiles
\* deliver the three profiles it stored, without error.
C14_ProfilesDelivered ==
    model.prfl_flattened # None =>
        /\ get_profiles(model).exc = NoExc
        /\ export_profiles(model, view).exc = NoExc
        /\ last.handler = "export_profiles" => last.exc = NoExc

\* C15: whenever plot_polar computes polar images, a background exists and
\* it was fitted on the image now loaded: it has the shape of that image
\* and of the beam-block mask that blanks it.
C15_BackgroundOfLoadedImage ==
    PolarDone =>
        /\ model.img_bkg # None
        /\ Shape(model.img_bkg) = Shape(model.img)
        /\ model.mask_min # None =>
               Shape(model.mask_min) = Shape(model.img_bkg)

\* C16: at most one plot_polar timeout is pending, callback_id is None
\* exactly when none is pending, and dot_moved never asks the document to
\* remove a timeout that has fired.
C16_OnePendingTimeout ==
    /\ Cardinality(timeouts) <= 1
    /\ callback_id = None <=> timeouts = {}
    /\ callback_id # None => callback_id \in timeouts
    /\ last.at # "remove_timeout_callback"

\* C17: once a handler has ended, completed or failed, the progress
\* indicator is hidden.
C17_ProgressHidden == view.progress = FALSE

============================================================================
